---- MODULE Spec2Model ----
(***************************************************************************)
(* cli_pong: the fixed-step Pong engine of src/state.rs driven by the      *)
(* frame loop of src/main.rs.                                              *)
(*                                                                         *)
(* Numbers.  The program computes in f64.  The model computes in fixed     *)
(* point: a position is an integer number of thousandths of a field unit,  *)
(* a velocity an integer number of thousandths of a field unit per second, *)
(* a duration an integer number of milliseconds.  Every product that f64   *)
(* rounds to the nearest representable value is rounded here to the        *)
(* nearest thousandth (RoundDiv).  usize values (width, height, reach,     *)
(* scores, discrete cells) are plain naturals.                             *)
(***************************************************************************)
EXTENDS Integers, FiniteSets, Sequences, TLC

VARIABLES
    width,            \* GameState.width
    height,           \* GameState.height
    player1_score,    \* GameState.player1_score
    player2_score,    \* GameState.player2_score
    player1,          \* GameState.player1
    player2,          \* GameState.player2
    ball,             \* GameState.ball
    overflow_checks,  \* build profile: TRUE = arithmetic overflow panics (debug)
    frame,            \* GameLoop.frame
    key_events,       \* main: the key map collected in this frame
    pc,               \* main: position in the loop body
    last_update       \* record of the update call of this frame (history)

vars == <<width, height, player1_score, player2_score, player1, player2, ball,
          overflow_checks, frame, key_events, pc, last_update>>

----------------------------------------------------------------------------
(* Bounds of the model *)

\* Number of frames the pacer hands out before the model stops following it.
MaxFrames == 4

----------------------------------------------------------------------------
(* Program constants *)

\* const VELOCITY_INCREASE: f64 = 1.003, in thousandths.
VELOCITY_INCREASE == 1003

\* main passes Duration::from_millis(100) to every update.
DT_MILLIS == 100

\* Thousandths of n.
Milli(n) == n * 1000

Abs(a) == IF a < 0 THEN -a ELSE a

Min(a, b) == IF a <= b THEN a ELSE b

Max(a, b) == IF a >= b THEN a ELSE b

\* a / b rounded to the nearest integer, halves away from zero (b # 0).
RoundDiv(a, b) ==
    LET n == IF b < 0 THEN -a ELSE a
        d == Abs(b)
    IN  IF n >= 0 THEN (2 * n + d) \div (2 * d)
                  ELSE -((2 * (-n) + d) \div (2 * d))

\* velocity * dt.as_secs_f64(): the displacement in thousandths.
Displacement(v, dt) == RoundDiv(v * dt, 1000)

----------------------------------------------------------------------------
(* Position2D, DiscretePosition2D, Velocity2D *)

Position2D_new(x, y) == [x |-> x, y |-> y]

Velocity2D_new(vx, vy) == [vx |-> vx, vy |-> vy]

\* f64::round() as usize: nearest integer, halves away from zero; the cast
\* saturates, so every negative value becomes 0.
RoundAsUsize(v) == IF v <= 0 THEN 0 ELSE (v + 500) \div 1000

to_discrete(position) ==
    [x |-> RoundAsUsize(position.x), y |-> RoundAsUsize(position.y)]

to_continuous(cell) == Position2D_new(Milli(cell.x), Milli(cell.y))

----------------------------------------------------------------------------
(* Keys *)

KeyCodes == {"w", "s", "Up", "Down", "r", "c"}

\* A key map: KeyCode -> whether the event carries the CONTROL modifier.
Plain(codes) == [k \in codes |-> FALSE]

WithControl(codes) == [k \in codes |-> TRUE]

contains_key(pressed_keys, code) == code \in DOMAIN pressed_keys

----------------------------------------------------------------------------
(* Player *)

\* Mutant: the default velocity has a horizontal component.
Player_new_diagonal(extend_up, extend_down, key_up, key_down, position) ==
    [extend_up |-> extend_up,
     extend_down |-> extend_down,
     key_up |-> key_up,
     key_down |-> key_down,
     position |-> position,
     velocity |-> Velocity2D_new(Milli(12), Milli(12))]

Player_new(extend_up, extend_down, key_up, key_down, position) ==
    [extend_up |-> extend_up,
     extend_down |-> extend_down,
     key_up |-> key_up,
     key_down |-> key_down,
     position |-> position,
     velocity |-> Velocity2D_new(0, Milli(12))]

\* The last four lines of Player::update_position:
\* y.min(max_height - extend_up).max(0.0 + extend_down).
ClampY(y, max_height, extend_up, extend_down) ==
    Max(Min(y, max_height - Milli(extend_up)), 0 + Milli(extend_down))

\* Mutant: the down-key is looked at only when the up-key is not held.
Player_update_position_else_if(self, max_height, pressed_keys, dt) ==
    LET moved == IF contains_key(pressed_keys, self.key_up)
                 THEN Position2D_new(
                          self.position.x + Displacement(self.velocity.vx, dt),
                          self.position.y + Displacement(self.velocity.vy, dt))
                 ELSE IF contains_key(pressed_keys, self.key_down)
                 THEN Position2D_new(
                          self.position.x - Displacement(self.velocity.vx, dt),
                          self.position.y - Displacement(self.velocity.vy, dt))
                 ELSE self.position
    IN  [self EXCEPT !.position =
            Position2D_new(moved.x,
                ClampY(moved.y, max_height, self.extend_up, self.extend_down))]

Player_update_position(self, max_height, pressed_keys, dt) ==
    LET up == IF contains_key(pressed_keys, self.key_up)
              THEN Position2D_new(
                       self.position.x + Displacement(self.velocity.vx, dt),
                       self.position.y + Displacement(self.velocity.vy, dt))
              ELSE self.position
        down == IF contains_key(pressed_keys, self.key_down)
                THEN Position2D_new(
                         up.x - Displacement(self.velocity.vx, dt),
                         up.y - Displacement(self.velocity.vy, dt))
                ELSE up
    IN  [self EXCEPT !.position =
            Position2D_new(down.x,
                ClampY(down.y, max_height, self.extend_up, self.extend_down))]

\* own_discrete_position.y - self.extend_down is a usize subtraction: it
\* overflows when the paddle's cell is lower than its downward reach.
Player_collides_with_overflows(self) ==
    to_discrete(self.position).y < self.extend_down

\* Player::collides_with where the subtraction does not panic.  When the
\* subtraction wraps, the lower bound is 2^64 - (extend_down - own.y), which
\* no cell of the model reaches: the first conjunct is false.
Player_collides_with(self, position) ==
    LET discrete_position == to_discrete(position)
        own_discrete_position == to_discrete(self.position)
    IN  /\ IF own_discrete_position.y >= self.extend_down
           THEN own_discrete_position.y - self.extend_down <= discrete_position.y
           ELSE FALSE
        /\ discrete_position.y <= own_discrete_position.y + self.extend_up
        /\ own_discrete_position.x = discrete_position.x

----------------------------------------------------------------------------
(* Ball *)

Ball_new(position, velocity) == [position |-> position, velocity |-> velocity]

Ball_calc_next_position(self, dt) ==
    Position2D_new(self.position.x + Displacement(self.velocity.vx, dt),
                   self.position.y + Displacement(self.velocity.vy, dt))

\* Ball::calculate_collision_point_with_player.  collision_r is the quotient
\* (player.x - ball.x) / vx; the products velocity * collision_r are taken
\* over the exact quotient and rounded once.  With vx = 0 the f64 quotient is
\* infinite or NaN and so is the point: nan marks it, and every comparison
\* with it is false.
Ball_calculate_collision_point_with_player(self, player) ==
    IF self.velocity.vx = 0
    THEN [nan |-> TRUE, x |-> 0, y |-> 0]
    ELSE LET dx == player.position.x - self.position.x
         IN  [nan |-> FALSE,
              x |-> self.position.x + RoundDiv(self.velocity.vx * dx, self.velocity.vx),
              y |-> self.position.y + RoundDiv(self.velocity.vy * dx, self.velocity.vx)]

\* Mutant: the wall check tests the bottom wall only.
Ball_update_if_collision_with_wall_bottom_only(self, max_height, dt) ==
    LET next_position == Ball_calc_next_position(self, dt)
    IN  IF next_position.y <= 0
        THEN [self EXCEPT !.velocity.vy = -self.velocity.vy]
        ELSE self

Ball_update_if_collision_with_wall(self, max_height, dt) ==
    LET next_position == Ball_calc_next_position(self, dt)
    IN  IF next_position.y <= 0 \/ next_position.y >= max_height
        THEN [self EXCEPT !.velocity.vy = -self.velocity.vy]
        ELSE self

\* The first conjunct of the test in update_if_collision_with_player1: when
\* it holds, collides_with is called.
Ball_reaches_player1(self, p1, dt) ==
    LET possible_collision_point ==
            Ball_calculate_collision_point_with_player(self, p1)
        next_position == Ball_calc_next_position(self, dt)
    IN  /\ ~possible_collision_point.nan
        /\ possible_collision_point.x >= next_position.x

Ball_reaches_player2(self, p2, dt) ==
    LET possible_collision_point ==
            Ball_calculate_collision_point_with_player(self, p2)
        next_position == Ball_calc_next_position(self, dt)
    IN  /\ ~possible_collision_point.nan
        /\ possible_collision_point.x <= next_position.x

\* Mutant: paddle1 bounces the ball whenever its x is reached, wherever the
\* paddle stands.
Ball_update_if_collision_with_player1_anywhere(self, p1, dt) ==
    IF Ball_reaches_player1(self, p1, dt)
    THEN [self EXCEPT !.velocity.vx = -self.velocity.vx]
    ELSE self

Ball_update_if_collision_with_player1(self, p1, dt) ==
    IF /\ Ball_reaches_player1(self, p1, dt)
       /\ Player_collides_with(p1,
              Ball_calculate_collision_point_with_player(self, p1))
    THEN [self EXCEPT !.velocity.vx = -self.velocity.vx]
    ELSE self

Ball_update_if_collision_with_player2(self, p2, dt) ==
    IF /\ Ball_reaches_player2(self, p2, dt)
       /\ Player_collides_with(p2,
              Ball_calculate_collision_point_with_player(self, p2))
    THEN [self EXCEPT !.velocity.vx = -self.velocity.vx]
    ELSE self

\* self.velocity.vx *= VELOCITY_INCREASE, for either component.
Escalate(v) == RoundDiv(v * VELOCITY_INCREASE, 1000)

\* The ball after the wall check: the argument of the paddle check.
Ball_after_wall(self, max_height, dt) ==
    Ball_update_if_collision_with_wall(self, max_height, dt)

\* The ball after the wall check and the paddle check.
Ball_after_players(self, max_height, p1, p2, dt) ==
    LET walled == Ball_after_wall(self, max_height, dt)
    IN  IF walled.velocity.vx <= 0
        THEN Ball_update_if_collision_with_player1(walled, p1, dt)
        ELSE Ball_update_if_collision_with_player2(walled, p2, dt)

\* Mutant: the velocity is not multiplied in a call in which a paddle
\* bounced the ball.
Ball_update_position_no_increase_on_bounce(self, max_height, p1, p2, dt) ==
    LET walled == Ball_after_wall(self, max_height, dt)
        bounced == Ball_after_players(self, max_height, p1, p2, dt)
        next_position == Ball_calc_next_position(bounced, dt)
    IN  [position |-> next_position,
         velocity |-> IF bounced.velocity.vx # walled.velocity.vx
                      THEN bounced.velocity
                      ELSE Velocity2D_new(Escalate(bounced.velocity.vx),
                                          Escalate(bounced.velocity.vy))]

Ball_update_position(self, max_height, p1, p2, dt) ==
    LET bounced == Ball_after_players(self, max_height, p1, p2, dt)
        next_position == Ball_calc_next_position(bounced, dt)
    IN  [position |-> next_position,
         velocity |-> Velocity2D_new(Escalate(bounced.velocity.vx),
                                     Escalate(bounced.velocity.vy))]

\* Ball::update_position panics: collides_with is called on the paddle the
\* ball travels toward, its subtraction overflows and the build checks it.
Ball_update_position_panics(self, max_height, p1, p2, dt, checks) ==
    LET walled == Ball_after_wall(self, max_height, dt)
    IN  /\ checks
        /\ IF walled.velocity.vx <= 0
           THEN /\ Ball_reaches_player1(walled, p1, dt)
                /\ Player_collides_with_overflows(p1)
           ELSE /\ Ball_reaches_player2(walled, p2, dt)
                /\ Player_collides_with_overflows(p2)

\* The draws of Ball::random_ball_velocity the model follows: vx from
\* [10, 20) or [-20, -10), vy from [-6, 6).
RandomVx == {Milli(10), 19999, -Milli(20), -10001}

RandomVy == {-Milli(6), 5999}

\* Mutant: vx is drawn from one range around zero.
Ball_random_ball_velocity_around_zero ==
    {Velocity2D_new(vx, vy) : vx \in {-Milli(20), 0, 19999}, vy \in RandomVy}

Ball_random_ball_velocity == {Velocity2D_new(vx, vy) : vx \in RandomVx, vy \in RandomVy}

----------------------------------------------------------------------------
(* GameState *)

\* (height as f64) / 2. and (width as f64) / 2. are exact: n * 500 thousandths.
Half(n) == n * 500

GameState_initial_player1_position(w, h) == Position2D_new(0, Half(h))

GameState_initial_player2_position(w, h) == Position2D_new(Milli(w), Half(h))

GameState_initial_ball_position(w, h) == Position2D_new(Half(w), Half(h))

\* velocity is the value Ball::new draws from random_ball_velocity.
GameState_new(w, h, extend_player_height_up, extend_player_height_down, velocity) ==
    [width |-> w,
     height |-> h,
     player1_score |-> 0,
     player2_score |-> 0,
     player1 |-> Player_new(extend_player_height_up, extend_player_height_down,
                            "w", "s", GameState_initial_player1_position(w, h)),
     player2 |-> Player_new(extend_player_height_up, extend_player_height_down,
                            "Up", "Down", GameState_initial_player2_position(w, h)),
     ball |-> Ball_new(GameState_initial_ball_position(w, h), velocity)]

\* Mutant: the reset puts back the ball and leaves the paddles.
GameState_reset_ball_only(self, velocity) ==
    [self EXCEPT
        !.ball = Ball_new(GameState_initial_ball_position(self.width, self.height),
                          velocity)]

\* velocity is the value this call draws from random_ball_velocity.
GameState_reset_ball_and_players(self, velocity) ==
    [self EXCEPT
        !.player1.position = GameState_initial_player1_position(self.width, self.height),
        !.player2.position = GameState_initial_player2_position(self.width, self.height),
        !.ball = Ball_new(GameState_initial_ball_position(self.width, self.height),
                          velocity)]

\* Mutant: the point goes to the player whose paddle was passed.
GameState_update_score_swapped(self, velocity) ==
    IF self.ball.velocity.vx <= 0 /\ self.ball.position.x < self.player1.position.x
    THEN GameState_reset_ball_and_players(
             [self EXCEPT !.player1_score = self.player1_score + 1], velocity)
    ELSE IF self.ball.velocity.vx > 0 /\ self.ball.position.x > self.player2.position.x
    THEN GameState_reset_ball_and_players(
             [self EXCEPT !.player2_score = self.player2_score + 1], velocity)
    ELSE self

\* Mutant: a ball passing paddle1 counts for both players.
GameState_update_score_both(self, velocity) ==
    IF self.ball.velocity.vx <= 0 /\ self.ball.position.x < self.player1.position.x
    THEN GameState_reset_ball_and_players(
             [self EXCEPT !.player2_score = self.player2_score + 1,
                          !.player1_score = self.player1_score + 1], velocity)
    ELSE IF self.ball.velocity.vx > 0 /\ self.ball.position.x > self.player2.position.x
    THEN GameState_reset_ball_and_players(
             [self EXCEPT !.player1_score = self.player1_score + 1], velocity)
    ELSE self

GameState_update_score(self, velocity) ==
    IF self.ball.velocity.vx <= 0 /\ self.ball.position.x < self.player1.position.x
    THEN GameState_reset_ball_and_players(
             [self EXCEPT !.player2_score = self.player2_score + 1], velocity)
    ELSE IF self.ball.velocity.vx > 0 /\ self.ball.position.x > self.player2.position.x
    THEN GameState_reset_ball_and_players(
             [self EXCEPT !.player1_score = self.player1_score + 1], velocity)
    ELSE self

\* The game after both paddles moved (lines 332-335 of update).
GameState_players_moved(self, pressed_keys, dt) ==
    [self EXCEPT
        !.player1 = Player_update_position(self.player1, Milli(self.height),
                                           pressed_keys, dt),
        !.player2 = Player_update_position(self.player2, Milli(self.height),
                                           pressed_keys, dt)]

\* Mutant: the ball is updated against the paddles as they stood before the
\* call, and the paddles move afterwards.
GameState_ball_moved_before_players(self, pressed_keys, dt) ==
    LET moved == GameState_players_moved(self, pressed_keys, dt)
    IN  [moved EXCEPT !.ball =
            Ball_update_position(self.ball, Milli(self.height),
                                 self.player1, self.player2, dt)]

\* The game after the paddles and the ball moved (lines 332-338 of update).
GameState_ball_moved(self, pressed_keys, dt) ==
    LET moved == GameState_players_moved(self, pressed_keys, dt)
    IN  [moved EXCEPT !.ball =
            Ball_update_position(moved.ball, Milli(moved.height),
                                 moved.player1, moved.player2, dt)]

\* Mutant: the manual reset does not return; the rest of the tick runs.
GameState_update_reset_falls_through(self, pressed_keys, dt, velocity) ==
    LET start == IF contains_key(pressed_keys, "r")
                 THEN GameState_reset_ball_and_players(self, velocity)
                 ELSE self
    IN  GameState_update_score(GameState_ball_moved(start, pressed_keys, dt), velocity)

\* GameState::update; velocity is the value a reset in this call draws.
GameState_update(self, pressed_keys, dt, velocity) ==
    IF contains_key(pressed_keys, "r")
    THEN GameState_reset_ball_and_players(self, velocity)
    ELSE GameState_update_score(GameState_ball_moved(self, pressed_keys, dt), velocity)

\* GameState::update panics instead of returning.
GameState_update_panics(self, pressed_keys, dt, checks) ==
    /\ ~contains_key(pressed_keys, "r")
    /\ LET moved == GameState_players_moved(self, pressed_keys, dt)
       IN  Ball_update_position_panics(moved.ball, Milli(moved.height),
                                       moved.player1, moved.player2, dt, checks)

\* The cells GameState::display walks: 0..=width by 0..=height.
DisplayCells(self) ==
    {[x |-> x, y |-> y] : x \in 0..self.width, y \in 0..self.height}

\* GameState::display panics: for some cell that is not the ball's,
\* collides_with is called on a paddle whose subtraction overflows.
GameState_display_panics(self, checks) ==
    /\ checks
    /\ \E cell \in DisplayCells(self) :
        /\ to_discrete(self.ball.position) # cell
        /\ \/ Player_collides_with_overflows(self.player1)
           \/ /\ ~Player_collides_with(self.player1, to_continuous(cell))
              /\ Player_collides_with_overflows(self.player2)

----------------------------------------------------------------------------
(* The state machine: main's loop around GameState *)

\* The GameState value held by main.
Self ==
    [width |-> width,
     height |-> height,
     player1_score |-> player1_score,
     player2_score |-> player2_score,
     player1 |-> player1,
     player2 |-> player2,
     ball |-> ball]

\* No key: HashMap::new().
NoKeys == Plain({})

\* The key maps get_pressed_keys returns in the model.
KeyEventSets ==
    {Plain(codes) : codes \in {{}, {"w"}, {"s"}, {"Up"}, {"Down"}, {"w", "s"},
                               {"r"}, {"r", "w"}, {"c"}}}
    \cup {WithControl({"c"})}

\* The command lines the model follows: width, height, up and down reach.
Configurations ==
    {[width |-> 4, height |-> 4, up |-> 1, down |-> 1],
     [width |-> 2, height |-> 4, up |-> 0, down |-> 3],
     [width |-> 2, height |-> 1, up |-> 0, down |-> 0]}

\* No update call is on record.
NoUpdate(self) ==
    [called |-> FALSE,
     keys |-> NoKeys,
     before |-> self,
     players_moved |-> self,
     ball_walled |-> self.ball,
     ball_moved |-> self]

\* The record of a call of update that returned.
UpdateRecord(self, pressed_keys, dt) ==
    IF contains_key(pressed_keys, "r")
    THEN [NoUpdate(self) EXCEPT !.called = TRUE, !.keys = pressed_keys]
    ELSE LET moved == GameState_players_moved(self, pressed_keys, dt)
         IN  [called |-> TRUE,
              keys |-> pressed_keys,
              before |-> self,
              players_moved |-> moved,
              ball_walled |-> Ball_after_wall(moved.ball, Milli(moved.height), dt),
              ball_moved |-> GameState_ball_moved(self, pressed_keys, dt)]

SetGame(g) ==
    /\ width' = g.width
    /\ height' = g.height
    /\ player1_score' = g.player1_score
    /\ player2_score' = g.player2_score
    /\ player1' = g.player1
    /\ player2' = g.player2
    /\ ball' = g.ball

game == <<width, height, player1_score, player2_score, player1, player2, ball>>

Init ==
    /\ \E cfg \in Configurations : \E velocity \in Ball_random_ball_velocity :
          LET g == GameState_new(cfg.width, cfg.height, cfg.up, cfg.down, velocity)
          IN  /\ width = g.width
              /\ height = g.height
              /\ player1_score = g.player1_score
              /\ player2_score = g.player2_score
              /\ player1 = g.player1
              /\ player2 = g.player2
              /\ ball = g.ball
              /\ last_update = NoUpdate(g)
    /\ overflow_checks \in BOOLEAN
    /\ frame = 0
    /\ key_events = NoKeys
    /\ pc = "loop"

\* GameLoop::next: the pacer hands out the next frame.
NextFrame ==
    /\ pc = "loop"
    /\ frame < MaxFrames
    /\ frame' = frame + 1
    /\ pc' = "keys"
    /\ UNCHANGED <<game, overflow_checks, key_events, last_update>>

\* get_pressed_keys() returned Ok.
GetPressedKeys ==
    /\ pc = "keys"
    /\ \E pressed_keys \in KeyEventSets : key_events' = pressed_keys
    /\ pc' = "check"
    /\ UNCHANGED <<game, overflow_checks, frame, last_update>>

\* get_pressed_keys() returned Err: unwrap_or(HashMap::new()).
GetPressedKeysFails ==
    /\ pc = "keys"
    /\ key_events' = NoKeys
    /\ pc' = "check"
    /\ UNCHANGED <<game, overflow_checks, frame, last_update>>

\* The test of lines 47-51 of main.
QuitRequested ==
    /\ contains_key(key_events, "c")
    /\ key_events["c"]

Quit ==
    /\ pc = "check"
    /\ QuitRequested
    /\ pc' = "done"
    /\ UNCHANGED <<game, overflow_checks, frame, key_events, last_update>>

\* game_state.update(key_events, Duration::from_millis(100)): it returns, or
\* it panics in collides_with and the process ends.
Update ==
    /\ pc = "check"
    /\ ~QuitRequested
    /\ IF GameState_update_panics(Self, key_events, DT_MILLIS, overflow_checks)
       THEN /\ pc' = "panicked"
            /\ UNCHANGED <<game, key_events, last_update>>
       ELSE /\ \E velocity \in Ball_random_ball_velocity :
                  SetGame(GameState_update(Self, key_events, DT_MILLIS, velocity))
            /\ last_update' = UpdateRecord(Self, key_events, DT_MILLIS)
            /\ key_events' = NoKeys
            /\ pc' = "display"
    /\ UNCHANGED <<overflow_checks, frame>>

\* game_state.display() returns Ok.
Display ==
    /\ pc = "display"
    /\ GameState_display_panics(Self, overflow_checks) = FALSE
    /\ last_update' = NoUpdate(Self)
    /\ pc' = "loop"
    /\ UNCHANGED <<game, overflow_checks, frame, key_events>>

\* game_state.display() returns Err: main prints "Failed to display!".
DisplayFails ==
    /\ pc = "display"
    /\ last_update' = NoUpdate(Self)
    /\ pc' = "loop"
    /\ UNCHANGED <<game, overflow_checks, frame, key_events>>

\* game_state.display() panics in collides_with: the process ends.
DisplayPanics ==
    /\ pc = "display"
    /\ GameState_display_panics(Self, overflow_checks) = TRUE
    /\ pc' = "panicked"
    /\ UNCHANGED <<game, overflow_checks, frame, key_events, last_update>>

Next ==
    \/ NextFrame
    \/ GetPressedKeys
    \/ GetPressedKeysFails
    \/ Quit
    \/ Update
    \/ Display
    \/ DisplayFails
    \/ DisplayPanics

Spec == Init /\ [][Next]_vars

----------------------------------------------------------------------------
(* Vocabulary of the properties *)

\* A call of update has just returned; last_update describes it.
Updated == pc = "display" /\ last_update.called

\* The key map of that call held the reset key.
ResetKeyHeld == contains_key(last_update.keys, "r")

\* A point was scored in that call.
Scored ==
    player1_score + player2_score
        # last_update.before.player1_score + last_update.before.player2_score

\* Ball and paddles stand where construction puts them.
InitialLayout ==
    /\ ball.position = Position2D_new(Half(width), Half(height))
    /\ player1.position = Position2D_new(0, Half(height))
    /\ player2.position = Position2D_new(Milli(width), Half(height))

\* Reach, keys and velocity of both paddles and the field are as before the call.
FrameUnchanged ==
    /\ width = last_update.before.width
    /\ height = last_update.before.height
    /\ \A who \in {"player1", "player2"} :
          \A f \in {"extend_up", "extend_down", "key_up", "key_down", "velocity"} :
              Self[who][f] = last_update.before[who][f]

\* Both signs are known and differ.
OppositeSign(a, b) == (a > 0 /\ b < 0) \/ (a < 0 /\ b > 0)

----------------------------------------------------------------------------
(* C1 *)

\* C1 (as claimed): after every call of update that returns, each paddle's
\* position.y lies within [extend_down, height - extend_up].
C1_PaddleWithinReach ==
    Updated =>
        \A p \in {player1, player2} :
            /\ Milli(p.extend_down) <= p.position.y
            /\ p.position.y <= Milli(height) - Milli(p.extend_up)

----------------------------------------------------------------------------
(* C2 *)

\* C2: in a call of update without the reset key, if after the ball moved it
\* has vx <= 0 and x < paddle1.x then player2's score grows by exactly 1,
\* player1's is unchanged and the layout is reset; if vx > 0 and x > paddle2.x
\* then player1's score grows by exactly 1, player2's is unchanged and the
\* layout is reset; otherwise both scores are unchanged and paddles and ball
\* stay where the movement put them.
C2_Scoring ==
    (Updated /\ ~ResetKeyHeld) =>
        LET m == last_update.ball_moved
            before == last_update.before
        IN  IF m.ball.velocity.vx <= 0 /\ m.ball.position.x < m.player1.position.x
            THEN /\ player2_score = before.player2_score + 1
                 /\ player1_score = before.player1_score
                 /\ InitialLayout
            ELSE IF m.ball.velocity.vx > 0 /\ m.ball.position.x > m.player2.position.x
            THEN /\ player1_score = before.player1_score + 1
                 /\ player2_score = before.player2_score
                 /\ InitialLayout
            ELSE /\ player1_score = before.player1_score
                 /\ player2_score = before.player2_score
                 /\ ball = m.ball
                 /\ player1 = m.player1
                 /\ player2 = m.player2

\* Witness of C2: a point has just been scored, and both players have scored.
C2_Witness ==
    /\ Updated
    /\ ~ResetKeyHeld
    /\ Scored
    /\ player1_score >= 1
    /\ player2_score >= 1

----------------------------------------------------------------------------
(* C3 *)

\* A reset ran in the call: the reset key was held, or a point was scored.
ResetRan == ResetKeyHeld \/ Scored

\* What every reset leaves apart from the drawn velocity: the initial layout,
\* the field and the paddles' reach, keys and velocity as before, and after a
\* manual reset the scores as before.
ResetLeavesRest ==
    /\ InitialLayout
    /\ FrameUnchanged
    /\ ResetKeyHeld =>
          /\ player1_score = last_update.before.player1_score
          /\ player2_score = last_update.before.player2_score

\* C3 (as claimed): every reset, manual or scoring, leaves the initial
\* layout and a ball velocity with |vx| in [10, 20) and vy in [-6, 6), and
\* changes neither scores nor field nor the paddles' reach and velocity.
C3_ResetAsClaimed ==
    (Updated /\ ResetRan) =>
        /\ ResetLeavesRest
        /\ Milli(10) <= Abs(ball.velocity.vx)
        /\ Abs(ball.velocity.vx) < Milli(20)
        /\ -Milli(6) <= ball.velocity.vy
        /\ ball.velocity.vy < Milli(6)

\* C3 (amended): every reset, manual or scoring, leaves the initial layout
\* and a ball velocity with vx in [10, 20) or in [-20, -10) and vy in
\* [-6, 6), and changes neither scores nor field nor the paddles' reach and
\* velocity.
C3_Reset ==
    (Updated /\ ResetRan) =>
        /\ ResetLeavesRest
        /\ \/ Milli(10) <= ball.velocity.vx /\ ball.velocity.vx < Milli(20)
           \/ -Milli(20) <= ball.velocity.vx /\ ball.velocity.vx < -Milli(10)
        /\ -Milli(6) <= ball.velocity.vy
        /\ ball.velocity.vy < Milli(6)

\* Witness of C3: a scoring reset, after the paddles had left their initial
\* places, drew the lowest horizontal velocity.
C3_Witness ==
    /\ Updated
    /\ Scored
    /\ last_update.players_moved.player1.position.y # Half(height)
    /\ ball.velocity.vx = -Milli(20)

----------------------------------------------------------------------------
(* C4 *)

\* C4: when the key map passed to update holds the reset key, the call only
\* resets: both scores are unchanged, paddles and ball stand in the initial
\* layout whatever other keys are held, the ball's velocity is a fresh draw
\* (not integrated, not multiplied by 1.003), and no point is scored.
C4_ManualReset ==
    (Updated /\ ResetKeyHeld) =>
        /\ player1_score = last_update.before.player1_score
        /\ player2_score = last_update.before.player2_score
        /\ InitialLayout
        /\ FrameUnchanged
        /\ ball.velocity \in Ball_random_ball_velocity

\* Had the call not held the reset key, this is the game after the movement.
WithoutResetKey ==
    GameState_ball_moved(last_update.before,
                         [k \in DOMAIN last_update.keys \ {"r"} |-> FALSE],
                         DT_MILLIS)

\* Witness of C4: the reset key is held together with a paddle key, in a
\* call in which the ball would otherwise have crossed paddle2 and scored.
C4_Witness ==
    /\ Updated
    /\ ResetKeyHeld
    /\ contains_key(last_update.keys, "w")
    /\ WithoutResetKey.ball.velocity.vx > 0
    /\ WithoutResetKey.ball.position.x > WithoutResetKey.player2.position.x

----------------------------------------------------------------------------
(* C5 *)

\* C5: in every step neither score decreases and the two scores together
\* grow by at most 1.
C5_ScoresMonotone ==
    [][/\ player1_score' >= player1_score
       /\ player2_score' >= player2_score
       /\ player1_score' + player2_score' <= player1_score + player2_score + 1]_vars

\* Witness of C5: three points have been scored, the last one just now.
C5_Witness ==
    /\ Updated
    /\ Scored
    /\ player1_score + player2_score >= 3

----------------------------------------------------------------------------
(* C6 *)

\* m is v scaled by 1.003, to the nearest thousandth.
ScaledBy1003(m, v) == 2 * Abs(1000 * m - 1003 * v) <= 1000

\* Each component's magnitude is the one before the call scaled by 1.003,
\* and so not smaller.
SpeedEscalated ==
    LET old == last_update.before.ball.velocity
        new == ball.velocity
    IN  /\ ScaledBy1003(Abs(new.vx), Abs(old.vx))
        /\ ScaledBy1003(Abs(new.vy), Abs(old.vy))
        /\ Abs(new.vx) >= Abs(old.vx)
        /\ Abs(new.vy) >= Abs(old.vy)

\* C6 (as claimed): in every call of update the ball's speed does not
\* decrease: both components' magnitudes are scaled by exactly 1.003.
C6_EscalationAsClaimed == Updated => SpeedEscalated

\* C6 (amended): in every call of update in which no reset runs (the reset
\* key is not held and no point is scored) the ball's speed does not
\* decrease: both components' magnitudes are scaled by exactly 1.003,
\* whether or not a bounce flipped a sign in that call.
C6_Escalation == (Updated /\ ~ResetRan) => SpeedEscalated

\* Witness of C6: a call without reset in which both a wall and a paddle
\* flipped a sign.
C6_Witness ==
    /\ Updated
    /\ ~ResetRan
    /\ OppositeSign(ball.velocity.vx, last_update.before.ball.velocity.vx)
    /\ OppositeSign(ball.velocity.vy, last_update.before.ball.velocity.vy)

----------------------------------------------------------------------------
(* C7 *)

\* C7 (as claimed): in every state between update calls the ball is inside
\* the field: 0 <= x <= width and 0 <= y <= height.
C7_BallInsideField ==
    /\ 0 <= ball.position.x
    /\ ball.position.x <= Milli(width)
    /\ 0 <= ball.position.y
    /\ ball.position.y <= Milli(height)

----------------------------------------------------------------------------
(* C8 *)

\* C8: in every state the ball's horizontal velocity is not zero, and its
\* magnitude is at least 10.
C8_VxNeverZero ==
    /\ ball.velocity.vx # 0
    /\ Abs(ball.velocity.vx) >= Milli(10)

\* Witness of C8: a horizontal velocity drawn at the slow end of its range
\* has just been divided by in the paddle-intersection calculation and been
\* flipped by the paddle.
C8_Witness ==
    /\ Updated
    /\ ~ResetRan
    /\ OppositeSign(ball.velocity.vx, last_update.before.ball.velocity.vx)
    /\ Abs(ball.velocity.vx) <= 10100

----------------------------------------------------------------------------
(* C9 *)

\* The ball the paddle check of the call started from.
Checked == last_update.ball_walled

\* The paddle that ball travels toward, as moved in the call.
Toward ==
    IF Checked.velocity.vx <= 0
    THEN last_update.players_moved.player1
    ELSE last_update.players_moved.player2

\* Where the ball's path crosses that paddle's x.
Crossing ==
    LET dx == Toward.position.x - Checked.position.x
    IN  [x |-> Toward.position.x,
         y |-> Checked.position.y + RoundDiv(Checked.velocity.vy * dx, Checked.velocity.vx)]

\* The paddle is reached within the call.
CrossingReached ==
    LET next_x == Checked.position.x + Displacement(Checked.velocity.vx, DT_MILLIS)
    IN  IF Checked.velocity.vx <= 0 THEN Crossing.x >= next_x ELSE Crossing.x <= next_x

\* The crossing's cell lies in the paddle's column, within its reach.
CrossingInReach ==
    LET cell_x == RoundAsUsize(Crossing.x)
        cell_y == RoundAsUsize(Crossing.y)
        own_x == RoundAsUsize(Toward.position.x)
        own_y == RoundAsUsize(Toward.position.y)
    IN  /\ cell_x = own_x
        /\ own_y - Toward.extend_down <= cell_y
        /\ cell_y <= own_y + Toward.extend_up

\* C9: in a ball update, vx is inverted exactly when the point where the
\* ball's path crosses the x of the paddle it travels toward (paddle1 for
\* vx <= 0, paddle2 for vx > 0) is reached within the call and lies, as a
\* cell, within that paddle's reach; otherwise vx keeps its sign.  vx is
\* inverted at most once: its new value is the old or its negation, scaled.
C9_PaddleBounce ==
    (Updated /\ ~ResetKeyHeld) =>
        LET new == last_update.ball_moved.ball.velocity
        IN  IF CrossingReached /\ CrossingInReach
            THEN new.vx = Escalate(-Checked.velocity.vx)
            ELSE new.vx = Escalate(Checked.velocity.vx)

\* Witness of C9: paddle1 is reached within the call and the crossing lies
\* within its reach, in a field where it could have been missed.
C9_Witness ==
    /\ Updated
    /\ ~ResetKeyHeld
    /\ Checked.velocity.vx <= 0
    /\ CrossingReached
    /\ CrossingInReach
    /\ last_update.before.player1.extend_up = 1

----------------------------------------------------------------------------
(* C10 *)

\* The next y predicted from position and velocity before the call is at or
\* beyond a wall.
WallPredicted ==
    LET old == last_update.before.ball
        next_y == old.position.y + Displacement(old.velocity.vy, DT_MILLIS)
    IN  next_y <= 0 \/ next_y >= Milli(height)

\* C10: in a ball update, vy is negated exactly when the next y predicted
\* from the velocity before the call is <= 0 or >= max_height; the wall
\* check changes neither vx nor the position nor vy's magnitude, and the
\* committed y is the old y plus the (possibly negated) vy times dt.
C10_WallBounce ==
    (Updated /\ ~ResetKeyHeld) =>
        LET old == last_update.before.ball
            walled == last_update.ball_walled
            new == last_update.ball_moved.ball
            vy == IF WallPredicted THEN -old.velocity.vy ELSE old.velocity.vy
        IN  /\ walled.velocity.vy = vy
            /\ walled.velocity.vx = old.velocity.vx
            /\ walled.position = old.position
            /\ new.position.y = old.position.y + Displacement(vy, DT_MILLIS)
            /\ new.velocity.vy = Escalate(vy)

\* Witness of C10: the top wall is predicted in a call and the ball, bounced,
\* stays inside the field.
C10_Witness ==
    /\ Updated
    /\ ~ResetRan
    /\ WallPredicted
    /\ last_update.before.ball.velocity.vy > 0
    /\ 0 < ball.position.y
    /\ ball.position.y < Milli(height)

----------------------------------------------------------------------------
(* C11 *)

\* The cell of point lies in the paddle's column, between own_y - extend_down
\* and own_y + extend_up inclusive.
InPaddleSegment(p, point) ==
    LET cell == to_discrete(point)
        own == to_discrete(p.position)
    IN  /\ cell.x = own.x
        /\ own.y - p.extend_down <= cell.y
        /\ cell.y <= own.y + p.extend_up

\* collides_with(point) on paddle p returns (it does not panic).
CollidesWithReturns(p) ==
    ~(overflow_checks /\ Player_collides_with_overflows(p))

\* C11 (as claimed): whenever display is about to ask the paddles, for every
\* paddle and every cell of the field, collides_with returns, and returns
\* true exactly when the cell lies in the paddle's column between
\* own_y - extend_down and own_y + extend_up inclusive.
C11_CollidesWithAsClaimed ==
    pc = "display" =>
        \A p \in {player1, player2} : \A cell \in DisplayCells(Self) :
            /\ CollidesWithReturns(p)
            /\ Player_collides_with(p, to_continuous(cell))
                   <=> InPaddleSegment(p, to_continuous(cell))

----------------------------------------------------------------------------
(* C12 *)

\* Paddle p after its own update in the call.
PaddleAfterOwnUpdate(p) ==
    Player_update_position(p, Milli(last_update.before.height),
                           last_update.keys, DT_MILLIS)

\* The ball of before the call, updated against paddles p1 and p2.
BallUpdatedAgainst(p1, p2) ==
    Ball_update_position(last_update.before.ball, Milli(last_update.before.height),
                         p1, p2, DT_MILLIS)

\* C12: a call of update without the reset key moves paddle1 and paddle2,
\* then updates the ball against the paddles as moved in this call, then
\* checks the score on the ball as integrated and escalated: the state after
\* the call is the score check applied to exactly that.
C12_TickOrder ==
    (Updated /\ ~ResetKeyHeld) =>
        LET before == last_update.before
            p1 == PaddleAfterOwnUpdate(before.player1)
            p2 == PaddleAfterOwnUpdate(before.player2)
            moved == [before EXCEPT !.player1 = p1, !.player2 = p2,
                                    !.ball = BallUpdatedAgainst(p1, p2)]
        IN  Self = GameState_update_score(moved, ball.velocity)

\* Witness of C12: a call in which the order decides: the ball bounced off
\* the paddle as moved in this call and would have passed the paddle as it
\* stood before, and no reset ran.
C12_Witness ==
    /\ Updated
    /\ ~ResetRan
    /\ OppositeSign(ball.velocity.vx, last_update.before.ball.velocity.vx)
    /\ BallUpdatedAgainst(last_update.before.player1, last_update.before.player2).velocity.vx
           = Escalate(last_update.before.ball.velocity.vx)

----------------------------------------------------------------------------
(* C13 *)

\* 1 when code is in the call's key map, else 0.
Held(code) == IF contains_key(last_update.keys, code) THEN 1 ELSE 0

\* y brought into [extend_down, height - extend_up] of paddle p.
ClampedToReach(y, p) ==
    LET low == Milli(p.extend_down)
        high == Milli(last_update.before.height) - Milli(p.extend_up)
    IN  IF y < low THEN low ELSE IF y > high THEN high ELSE y

\* The y the claim gives paddle p with up-key up and down-key down:
\* clamp(y + (u - d) * 12 * dt).
ClaimedY(p, up, down) ==
    ClampedToReach(
        p.position.y + (Held(up) - Held(down)) * Displacement(Milli(12), DT_MILLIS),
        p)

\* C13: in a call of update without the reset key each paddle's new y is
\* clamp(y + (u - d) * 12 * dt), with u and d telling whether the paddle's
\* own up-key and down-key are in this call's key map: 'w' and 's' for
\* paddle1, Up and Down for paddle2; nothing else of the key map and nothing
\* of earlier calls enters.  The paddles keep that y unless a reset follows
\* in the same call.
C13_PaddleMovement ==
    (Updated /\ ~ResetKeyHeld) =>
        LET before == last_update.before
            y1 == ClaimedY(before.player1, "w", "s")
            y2 == ClaimedY(before.player2, "Up", "Down")
        IN  /\ last_update.players_moved.player1.position.y = y1
            /\ last_update.players_moved.player2.position.y = y2
            /\ ~ResetRan => (player1.position.y = y1 /\ player2.position.y = y2)

\* Witness of C13: both keys of paddle1 are held in a call without reset and
\* paddle1 stays at a y strictly inside its range which it reached by
\* moving in an earlier call.
C13_Witness ==
    /\ Updated
    /\ ~ResetRan
    /\ contains_key(last_update.keys, "w")
    /\ contains_key(last_update.keys, "s")
    /\ player1.position.y # Half(height)
    /\ player1.position.y > Milli(player1.extend_down)
    /\ player1.position.y < Milli(height) - Milli(player1.extend_up)

----------------------------------------------------------------------------
(* C14 *)

\* Paddle p has the velocity of construction and stands at x.
PaddleFixed(p, x) ==
    /\ p.velocity = Velocity2D_new(0, Milli(12))
    /\ p.position.x = x

\* C14: in every step each paddle's velocity is (0, 12.0) before and after,
\* paddle1.x is 0 and paddle2.x is width before and after, and the step
\* changes neither a paddle's reach or keys nor the field's width or height.
C14_PaddleFrame ==
    [][/\ PaddleFixed(player1, 0)
       /\ PaddleFixed(player2, Milli(width))
       /\ PaddleFixed(player1', 0)
       /\ PaddleFixed(player2', Milli(width'))
       /\ width' = width
       /\ height' = height
       /\ \A f \in {"extend_up", "extend_down", "key_up", "key_down"} :
             /\ player1'[f] = player1[f]
             /\ player2'[f] = player2[f]]_vars

\* Witness of C14: after an earlier reset by a score, a call with the up-key
\* held has just moved paddle1.
C14_Witness ==
    /\ Updated
    /\ ~ResetRan
    /\ player1_score + player2_score >= 1
    /\ contains_key(last_update.keys, "w")
    /\ player1.position.y > last_update.before.player1.position.y
    /\ player1.extend_up = 1

----------------------------------------------------------------------------
(* C15 *)

\* The loop of main is running.
InLoop(at) == at \in {"loop", "keys", "check", "display"}

\* One step of the driver as the claim describes it.
DriverStepAsClaimed ==
    /\ pc = "keys" => (pc' = "check" /\ key_events' \in KeyEventSets /\ UNCHANGED game)
    /\ (pc = "check" /\ QuitRequested) => (pc' = "done" /\ UNCHANGED game)
    /\ (pc = "check" /\ ~QuitRequested) => (pc' = "display" /\ last_update'.called)
    /\ pc = "display" => (pc' = "loop" /\ UNCHANGED game)
    /\ (InLoop(pc) /\ ~InLoop(pc')) => (pc = "check" /\ QuitRequested)

\* C15 (as claimed): in each frame the key map is collected first; if it
\* holds 'c' with CONTROL the loop ends before any update or display of that
\* frame, and the loop ends in no other way; otherwise update is called once
\* and then display once, and display, failed or not, leaves the game
\* unchanged and is followed by the next frame.
C15_DriverLoopAsClaimed == [][DriverStepAsClaimed]_vars

----------------------------------------------------------------------------
(* C16 *)

\* C16 (as claimed): whenever collides_with is called, from the ball update
\* or from display, the paddle's cell y is >= extend_down: the subtraction
\* own_discrete_position.y - extend_down never underflows, and no call
\* panics.
C16_NoUnderflowAsClaimed ==
    /\ pc = "display" =>
          /\ ~Player_collides_with_overflows(player1)
          /\ ~Player_collides_with_overflows(player2)
    /\ (pc = "check" /\ ~QuitRequested) =>
          ~GameState_update_panics(Self, key_events, DT_MILLIS, TRUE)
    /\ pc # "panicked"

====
